---- MODULE Spec2Model ----
(***************************************************************************)
(* CPM / PERT script (src/CPM_PERT.py): activity records with three-point  *)
(* estimates, the precedence graph, the forward and backward passes, the   *)
(* critical set, the CPM and PERT tables and the subset statistics.        *)
(*                                                                         *)
(* Times are Python floats (IEEE-754 binary64).  A float is modelled       *)
(* exactly, as the integer number of units of 2^-55 it is worth, held in   *)
(* two limbs <<hi, lo>> = hi * Limb + lo with 0 <= lo < Limb.  Every       *)
(* expected time (o + 4m + p) / 6 with o + 4m + p >= 1 is at least 1/6, so *)
(* its last bit is worth at least 2^-55 and every sum and difference the   *)
(* passes form is a whole number of units; rounding to 53 significant bits *)
(* is round-to-nearest, ties to even, as the hardware does it.             *)
(***************************************************************************)
EXTENDS Integers, Sequences, FiniteSets, TLC

\* ------------------------------------------------------------------------
\* binary64 arithmetic
\* ------------------------------------------------------------------------

Limb == 2^29

MantHi == 2^24

FZero == <<0, 0>>

\* the float of a small whole number n (exact)
FInt(n) == <<n * (2^26), 0>>

FNeg(x) == IF x[2] = 0 THEN <<0 - x[1], 0>> ELSE <<0 - x[1] - 1, Limb - x[2]>>

FLt(x, y) == x[1] < y[1] \/ (x[1] = y[1] /\ x[2] < y[2])

FLe(x, y) == x = y \/ FLt(x, y)

\* number of low bits a magnitude with high limb hi loses when it is cut to
\* 53 significant bits
RECURSIVE Shift(_)
Shift(hi) == IF hi < MantHi THEN 0 ELSE 1 + Shift(hi \div 2)

\* round the magnitude hi * Limb + lo + tail/3 to 53 significant bits,
\* to nearest, ties to even
RoundMag(hi, lo, tail) ==
    LET s    == Shift(hi)
        p    == 2^s
        r    == lo % p
        down == lo - r
        up   == IF s = 0
                  THEN tail = 2
                  ELSE \/ 2 * r > p
                       \/ 2 * r = p /\ tail > 0
                       \/ 2 * r = p /\ tail = 0 /\ (lo \div p) % 2 = 1
    IN  IF ~up THEN <<hi, down>>
        ELSE IF down + p = Limb THEN <<hi + 1, 0>>
        ELSE <<hi, down + p>>

FRound(x) == IF x[1] < 0 THEN FNeg(RoundMag(FNeg(x)[1], FNeg(x)[2], 0))
             ELSE RoundMag(x[1], x[2], 0)

\* x + y
FAdd(x, y) ==
    LET lo == x[2] + y[2]
    IN  FRound(<<x[1] + y[1] + (lo \div Limb), lo % Limb>>)

\* x - y
FSub(x, y) ==
    LET lo == x[2] - y[2]
    IN  FRound(IF lo >= 0 THEN <<x[1] - y[1], lo>>
               ELSE <<x[1] - y[1] - 1, lo + Limb>>)

\* k / 6 for a whole number k >= 0
FDiv6(k) ==
    LET hi0 == k * (2^25)
        r1  == hi0 % 3
    IN  RoundMag(hi0 \div 3, (r1 * Limb) \div 3, (r1 * Limb) % 3)

\* max(values, default=dflt)
FMax(S, dflt) ==
    IF S = {} THEN dflt
    ELSE LET x == CHOOSE x \in S : \A y \in S : FLe(y, x) IN x

\* min(values, default=dflt)
FMin(S, dflt) ==
    IF S = {} THEN dflt
    ELSE LET x == CHOOSE x \in S : \A y \in S : FLe(x, y) IN x

\* ------------------------------------------------------------------------
\* inputs
\* ------------------------------------------------------------------------

\* names of the activity rows of the sheet
Names == {"A", "B", "C"}

\* a predecessor name that is the name of no row
Unknown == "Z"

\* most predecessor names one row lists
MaxPreds == 2

\* (A, M, B) columns a row may hold
Estimates == {<<1, 2, 3>>, <<2, 4, 6>>, <<1, 1, 1>>, <<0, 0, 1>>, <<0, 1, 1>>}

\* the estimates used where the shape of the graph is what varies
FewEstimates == {<<1, 2, 3>>, <<0, 0, 1>>}

\* rows in an order in which every predecessor comes first
Earlier == [n \in Names |-> CASE n = "A" -> {}
                              [] n = "B" -> {"A"}
                              [] OTHER   -> {"A", "B"}]

Row(e, ps) == [optimistic |-> e[1], most_likely |-> e[2],
               pessimistic |-> e[3], predecessors |-> ps]

VARIABLES
    pc,                      \* the section of the script that runs next
    activities,              \* name -> row (read_activity_data)
    TE,                      \* name -> activities[name]['TE']
    G_nodes,                 \* G.nodes
    G_pred,                  \* node -> set(G.predecessors(node))
    duration,                \* node -> G.nodes[node]['duration']
    earliest_start,
    earliest_finish,
    order,                   \* list(nx.topological_sort(G)) of the backward pass
    bidx,                    \* nodes of reversed(order) already handled
    latest_start,
    latest_finish,
    critical_path,           \* <<>> until assigned, then <<set of nodes>>
    total_project_duration,  \* <<>> until assigned, then <<float>>
    printed,                 \* what the script has written to stdout
    error,                   \* the uncaught exception, "" when none
    specific_activities,
    specific_durations,
    specific_variance,
    specific_std_dev

vars == <<pc, activities, TE, G_nodes, G_pred, duration, earliest_start,
          earliest_finish, order, bidx, latest_start, latest_finish,
          critical_path, total_project_duration, printed, error,
          specific_activities, specific_durations, specific_variance,
          specific_std_dev>>

cpmVars == <<TE, G_nodes, G_pred, duration, earliest_start, earliest_finish,
             order, bidx, latest_start, latest_finish, critical_path,
             total_project_duration>>

subsetVars == <<specific_activities, specific_durations, specific_variance,
                specific_std_dev>>

\* ------------------------------------------------------------------------
\* graph helpers
\* ------------------------------------------------------------------------

Successors(node) == {s \in G_nodes : node \in G_pred[s]}

\* the sort yielding the nodes in any order, predecessors handled or not
Ready_AnyOrder(nodes, pred, done) == nodes \ done

\* nodes nx.topological_sort may yield next: every predecessor was yielded
Ready(nodes, pred, done) == {n \in nodes \ done : pred[n] \subseteq done}

\* every list nx.topological_sort may return for an acyclic graph
TopoOrders(nodes, pred) ==
    {s \in [1..Cardinality(nodes) -> nodes] :
        /\ \A i, j \in DOMAIN s : i # j => s[i] # s[j]
        /\ \A i, j \in DOMAIN s : i < j => s[j] \notin pred[s[i]]}

\* the list taken front to back, reversed() forgotten
BackwardNode_Unreversed(ord, i) == ord[i]

\* the i-th node of reversed(order)
BackwardNode(ord, i) == ord[Len(ord) + 1 - i]

\* earliest_finish[max(earliest_finish, key=earliest_finish.get)]
\* (read only once the forward pass has filled earliest_finish)
MaxEF(ef) == FMax({ef[n] : n \in DOMAIN ef}, FZero)

\* the earliest start taken from the predecessor that finishes first
ForwardES_Min(ef, preds) ==
    FMin({IF p \in DOMAIN ef THEN ef[p] ELSE FZero : p \in preds}, FZero)

\* max([earliest_finish.get(pred, 0) for pred in G.predecessors(node)], default=0)
ForwardES(ef, preds) ==
    FMax({IF p \in DOMAIN ef THEN ef[p] ELSE FZero : p \in preds}, FZero)

\* a node without successors anchored to its own earliest finish
BackwardLF_OwnFinish(ls, ef, node, succs) ==
    FMin({IF s \in DOMAIN ls THEN ls[s] ELSE MaxEF(ef) : s \in succs}, ef[node])

\* min([latest_start.get(succ, total) for succ in G.successors(node)], default=total)
BackwardLF(ls, ef, node, succs) ==
    FMin({IF s \in DOMAIN ls THEN ls[s] ELSE MaxEF(ef) : s \in succs}, MaxEF(ef))

\* [node for node in G.nodes if earliest_start[node] == latest_start[node]]
CriticalNodes(nodes, es, ls) == {n \in nodes : es[n] = ls[n]}

\* ------------------------------------------------------------------------
\* the script, section by section
\* ------------------------------------------------------------------------

Halt(exc) == pc' = "halt" /\ error' = exc

\* lines 34-42: the expected time of every row
ComputeTE ==
    /\ pc = "te"
    /\ TE' = [a \in DOMAIN activities |->
                FDiv6(activities[a].optimistic + 4 * activities[a].most_likely
                      + activities[a].pessimistic)]
    /\ pc' = "build"
    /\ UNCHANGED <<activities, G_nodes, G_pred, duration, earliest_start,
                   earliest_finish, order, bidx, latest_start, latest_finish,
                   critical_path, total_project_duration, printed, error,
                   subsetVars>>

\* lines 45-63: G.add_node for every row, G.add_edge for every predecessor
\* name (add_edge creates a node that does not exist yet), then the default
\* duration 0 of every node that has none
BuildGraph ==
    /\ pc = "build"
    /\ LET nodes == DOMAIN activities
                    \cup UNION {activities[a].predecessors : a \in DOMAIN activities}
       IN  /\ G_nodes' = nodes
           /\ G_pred' = [n \in nodes |-> IF n \in DOMAIN activities
                                          THEN activities[n].predecessors ELSE {}]
           /\ duration' = [n \in nodes |-> IF n \in DOMAIN activities
                                            THEN TE[n] ELSE FZero]
    /\ printed' = Append(printed, "cpm_header")
    /\ pc' = "forward"
    /\ UNCHANGED <<activities, TE, earliest_start, earliest_finish, order, bidx,
                   latest_start, latest_finish, critical_path,
                   total_project_duration, error, subsetVars>>

\* lines 68-72: one iteration of the forward pass
ForwardStep ==
    /\ pc = "forward"
    /\ \E node \in Ready(G_nodes, G_pred, DOMAIN earliest_start) :
         LET es == ForwardES(earliest_finish, G_pred[node])
             ef == FAdd(es, duration[node])
         IN  /\ earliest_start' = (node :> es) @@ earliest_start
             /\ earliest_finish' = (node :> ef) @@ earliest_finish
    /\ UNCHANGED <<pc, activities, TE, G_nodes, G_pred, duration, order, bidx,
                   latest_start, latest_finish, critical_path,
                   total_project_duration, printed, error, subsetVars>>

\* line 68: nx.topological_sort has nodes left and none without an unvisited
\* predecessor: it raises NetworkXUnfeasible
ForwardUnfeasible ==
    /\ pc = "forward"
    /\ DOMAIN earliest_start # G_nodes
    /\ Ready(G_nodes, G_pred, DOMAIN earliest_start) = {}
    /\ Halt("NetworkXUnfeasible")
    /\ UNCHANGED <<activities, cpmVars, printed, subsetVars>>

\* line 77: the forward loop is over; reversed(list(nx.topological_sort(G)))
BackwardStart ==
    /\ pc = "forward"
    /\ DOMAIN earliest_start = G_nodes
    /\ order' \in TopoOrders(G_nodes, G_pred)
    /\ bidx' = 0
    /\ pc' = "backward"
    /\ UNCHANGED <<activities, TE, G_nodes, G_pred, duration, earliest_start,
                   earliest_finish, latest_start, latest_finish, critical_path,
                   total_project_duration, printed, error, subsetVars>>

\* lines 78-81: one iteration of the backward pass
BackwardStep ==
    /\ pc = "backward"
    /\ bidx < Len(order)
    /\ LET node == BackwardNode(order, bidx + 1)
           lf   == BackwardLF(latest_start, earliest_finish, node, Successors(node))
           ls   == FSub(lf, duration[node])
       IN  /\ latest_finish' = (node :> lf) @@ latest_finish
           /\ latest_start' = (node :> ls) @@ latest_start
    /\ bidx' = bidx + 1
    /\ UNCHANGED <<pc, activities, TE, G_nodes, G_pred, duration, earliest_start,
                   earliest_finish, order, critical_path, total_project_duration,
                   printed, error, subsetVars>>

\* lines 84-88: the critical nodes and the total project duration
Critical ==
    /\ pc = "backward"
    /\ bidx = Len(order)
    /\ critical_path' = <<CriticalNodes(G_nodes, earliest_start, latest_start)>>
    /\ total_project_duration' = <<MaxEF(earliest_finish)>>
    /\ pc' = "cpm_table"
    /\ UNCHANGED <<activities, TE, G_nodes, G_pred, duration, earliest_start,
                   earliest_finish, order, bidx, latest_start, latest_finish,
                   printed, error, subsetVars>>

\* lines 91-110: the CPM table; every node of G is a row of the sheet
CpmTable ==
    /\ pc = "cpm_table"
    /\ G_nodes \subseteq DOMAIN activities
    /\ printed' = printed \o <<"cpm_table", "critical_path", "total_duration">>
    /\ pc' = "pert"
    /\ UNCHANGED <<activities, cpmVars, error, subsetVars>>

\* line 96: activities[node] for a node of G that is no row of the sheet
CpmTableKeyError ==
    /\ pc = "cpm_table"
    /\ ~(G_nodes \subseteq DOMAIN activities)
    /\ Halt("KeyError")
    /\ UNCHANGED <<activities, cpmVars, printed, subsetVars>>

\* the global names the script has bound when line 121 runs
BoundNames ==
    {"activities", "filename", "G", "earliest_start", "earliest_finish",
     "latest_finish", "latest_start", "critical_path", "critical_activities",
     "total_project_duration", "cpm_table_data", "cpm_headers",
     "pert_table_data"}

\* lines 113-139: the PERT table; the first row evaluates
\* total_standard_deviation > 0
PertTable ==
    /\ pc = "pert"
    /\ IF DOMAIN activities # {} /\ "total_standard_deviation" \notin BoundNames
         THEN /\ printed' = Append(printed, "pert_header")
              /\ Halt("NameError")
         ELSE /\ printed' = printed \o <<"pert_header", "pert_table">>
              /\ pc' = "subset"
              /\ error' = error
    /\ UNCHANGED <<activities, cpmVars, subsetVars>>

\* ------------------------------------------------------------------------
\* lines 144-156: statistics of the chosen activities
\* ------------------------------------------------------------------------

\* a short list of the rational num / den; the sample statistics are held
\* as exact rationals, the standard deviation by its square
Rat(n, d) == [num |-> n, den |-> d]

RECURSIVE SumSeq(_)
SumSeq(s) == IF s = <<>> THEN 0 ELSE Head(s) + SumSeq(Tail(s))

\* twice the value of a float that is a whole number of halves
Halves(x) == x[1] \div (2^25)

\* [activities[a]['TE'] for a in specific_activities if a in activities]
SpecificDurations(names, store, te) ==
    LET present == SelectSeq(names, LAMBDA a : a \in DOMAIN store)
    IN  [i \in DOMAIN present |-> te[present[i]]]

\* statistics.variance: sum((x - mean)^2) / (n - 1); raises StatisticsError
\* for fewer than two values (held as den = 0)
SampleVariance(durs) ==
    LET n  == Len(durs)
        xs == [i \in DOMAIN durs |-> Halves(durs[i])]
        sq == [i \in DOMAIN durs |-> xs[i] * xs[i]]
    IN  IF n < 2 THEN Rat(0, 0)
        ELSE Rat(n * SumSeq(sq) - SumSeq(xs) * SumSeq(xs), 4 * n * (n - 1))

\* the statistics attempted on a single value
EnoughValues_AtLeastOne(durs) == Len(durs) > 0

\* line 151: len(specific_durations) > 1
EnoughValues(durs) == Len(durs) > 1

SubsetStats ==
    /\ pc = "subset"
    /\ LET durs == SpecificDurations(specific_activities, activities, TE)
           var  == SampleVariance(durs)
       IN  /\ specific_durations' = durs
           /\ IF ~EnoughValues(durs)
                THEN /\ specific_variance' = Rat(0, 1)
                     /\ specific_std_dev' = Rat(0, 1)
                     /\ printed' = Append(printed, "specific_table")
                     /\ pc' = "end"
                     /\ error' = error
                ELSE IF var.den = 0
                THEN /\ Halt("StatisticsError")
                     /\ UNCHANGED <<specific_variance, specific_std_dev, printed>>
                ELSE /\ specific_variance' = var
                     /\ specific_std_dev' = var
                     /\ printed' = Append(printed, "specific_table")
                     /\ pc' = "end"
                     /\ error' = error
    /\ UNCHANGED <<activities, cpmVars, specific_activities>>

\* ------------------------------------------------------------------------
\* the schedule as a function of the graph and the durations
\* ------------------------------------------------------------------------

RECURSIVE EFof(_, _)
\* earliest_finish[node] of the forward pass run with durations dur
EFof(dur, node) ==
    FAdd(FMax({EFof(dur, p) : p \in G_pred[node]}, FZero), dur[node])

\* earliest_start[node]
ESof(dur, node) == FMax({EFof(dur, p) : p \in G_pred[node]}, FZero)

\* total_project_duration
TotalOf(dur) == FMax({EFof(dur, n) : n \in G_nodes}, FZero)

RECURSIVE LSof(_, _)
\* latest_start[node] of the backward pass
LSof(dur, node) ==
    FSub(FMin({LSof(dur, s) : s \in Successors(node)}, TotalOf(dur)), dur[node])

\* latest_finish[node]
LFof(dur, node) == FMin({LSof(dur, s) : s \in Successors(node)}, TotalOf(dur))

\* ------------------------------------------------------------------------
\* specifications
\* ------------------------------------------------------------------------

\* the sets of predecessor names a row may list
PredSets(universe) == {ps \in SUBSET universe : Cardinality(ps) <= MaxPreds}

Start(acts) ==
    /\ pc = "te"
    /\ activities = acts
    /\ TE = <<>>
    /\ G_nodes = {}
    /\ G_pred = <<>>
    /\ duration = <<>>
    /\ earliest_start = <<>>
    /\ earliest_finish = <<>>
    /\ order = <<>>
    /\ bidx = 0
    /\ latest_start = <<>>
    /\ latest_finish = <<>>
    /\ critical_path = <<>>
    /\ total_project_duration = <<>>
    /\ printed = <<>>
    /\ error = ""
    /\ specific_activities = <<"A", "B", "C", "D">>
    /\ specific_durations = <<>>
    /\ specific_variance = Rat(0, 1)
    /\ specific_std_dev = Rat(0, 1)

\* any sheet: predecessor names may form cycles or name no row
Init ==
    \E e \in [Names -> FewEstimates], ps \in [Names -> PredSets(Names \cup {Unknown})] :
        Start([n \in Names |-> Row(e[n], ps[n])])

CpmNext ==
    \/ ComputeTE
    \/ BuildGraph
    \/ ForwardStep
    \/ BackwardStart
    \/ BackwardStep
    \/ Critical
    \/ CpmTable
    \/ PertTable

Next ==
    \/ CpmNext
    \/ ForwardUnfeasible
    \/ CpmTableKeyError

Spec == Init /\ [][Next]_vars

\* sheets whose predecessor names are rows and form no cycle
DagInit ==
    \E e \in [Names -> Estimates], ps \in [Names -> PredSets(Names)] :
        /\ \A n \in Names : ps[n] \subseteq Earlier[n]
        /\ Start([n \in Names |-> Row(e[n], ps[n])])

DagSpec == DagInit /\ [][CpmNext]_vars

\* lists of names the subset statistics may be asked about
MaxSpecific == 4

SpecificUniverse == Names \cup {"D"}

\* estimates whose expected time is a whole number of halves
SubsetEstimates == {<<1, 2, 3>>, <<2, 4, 6>>, <<1, 1, 1>>, <<0, 0, 3>>}

\* the statistics section applied to any store and any list of names
SubsetInit ==
    \E e \in [Names -> SubsetEstimates], k \in 0..MaxSpecific :
      \E names \in [1..k -> SpecificUniverse] :
        /\ pc = "subset"
        /\ activities = [n \in Names |-> Row(e[n], {})]
        /\ TE = [n \in Names |-> FDiv6(e[n][1] + 4 * e[n][2] + e[n][3])]
        /\ G_nodes = {}
        /\ G_pred = <<>>
        /\ duration = <<>>
        /\ earliest_start = <<>>
        /\ earliest_finish = <<>>
        /\ order = <<>>
        /\ bidx = 0
        /\ latest_start = <<>>
        /\ latest_finish = <<>>
        /\ critical_path = <<>>
        /\ total_project_duration = <<>>
        /\ printed = <<>>
        /\ error = ""
        /\ specific_activities = names
        /\ specific_durations = <<>>
        /\ specific_variance = Rat(0, 1)
        /\ specific_std_dev = Rat(0, 1)

SubsetNext == SubsetStats

SubsetSpec == SubsetInit /\ [][SubsetNext]_vars

\* ------------------------------------------------------------------------
\* properties
\* ------------------------------------------------------------------------

\* both passes have run over every node
Scheduled == G_nodes # {} /\ DOMAIN latest_start = G_nodes

RECURSIVE ReachWithin(_, _)
\* the nodes of `within` reached from the set S along edges inside `within`
ReachWithin(S, within) ==
    LET S2 == S \cup {n \in within : G_pred[n] \cap S # {}}
    IN  IF S2 = S THEN S ELSE ReachWithin(S2, within)

RECURSIVE Ancestors(_, _)
\* the names reached from the set S along predecessor names of the sheet
Ancestors(S, acts) ==
    LET S2 == S \cup UNION {acts[n].predecessors : n \in S \cap DOMAIN acts}
    IN  IF S2 = S THEN S ELSE Ancestors(S2, acts)

\* the predecessor names of the sheet contain a cycle
HasCycle(acts) ==
    \E n \in DOMAIN acts : n \in Ancestors(acts[n].predecessors, acts)

NamesUnknown(acts) == \E n \in DOMAIN acts : Unknown \in acts[n].predecessors

\* C1: once both passes have completed on an acyclic sheet, ES <= LS and
\* EF <= LF at every node (slack is never negative)
C1_SlackNeverNegative ==
    Scheduled =>
        \A n \in G_nodes : /\ FLe(earliest_start[n], latest_start[n])
                           /\ FLe(earliest_finish[n], latest_finish[n])

\* the sheet A(1,2,3), B(2,4,6) after A, C(1,1,1) after A
ExampleSheet ==
    [n \in Names |-> CASE n = "A" -> Row(<<1, 2, 3>>, {})
                       [] n = "B" -> Row(<<2, 4, 6>>, {"A"})
                       [] OTHER   -> Row(<<1, 1, 1>>, {"A"})]

\* C2: every node the forward pass has handled has ES = max EF of its direct
\* predecessors (0 without any) and EF = ES + duration; the example sheet
\* gives ES_A=0 EF_A=2 ES_B=2 EF_B=6 ES_C=2 EF_C=3 and total duration 6
C2_ForwardPass ==
    /\ \A n \in DOMAIN earliest_start :
         /\ G_pred[n] \subseteq DOMAIN earliest_finish
         /\ earliest_start[n] = FMax({earliest_finish[p] : p \in G_pred[n]}, FZero)
         /\ earliest_finish[n] = FAdd(earliest_start[n], duration[n])
    /\ (activities = ExampleSheet /\ total_project_duration # <<>>) =>
         /\ earliest_start = [n \in Names |-> IF n = "A" THEN FInt(0) ELSE FInt(2)]
         /\ earliest_finish = [n \in Names |-> CASE n = "A" -> FInt(2)
                                                 [] n = "B" -> FInt(6)
                                                 [] OTHER   -> FInt(3)]
         /\ total_project_duration = <<FInt(6)>>

C2_Witness ==
    /\ activities = ExampleSheet
    /\ total_project_duration = <<FInt(6)>>
    /\ earliest_start["B"] = FInt(2)

\* C3: every node without successors gets LF = the maximum EF over all nodes,
\* which is the total project duration, also when its own EF is smaller
C3_SinksAnchored ==
    \A n \in DOMAIN latest_finish :
        Successors(n) = {} =>
            /\ latest_finish[n] = MaxEF(earliest_finish)
            /\ total_project_duration # <<>> =>
                   latest_finish[n] = total_project_duration[1]

C3_Witness ==
    /\ Scheduled
    /\ total_project_duration # <<>>
    /\ \E n \in G_nodes :
         /\ Successors(n) = {}
         /\ FLt(earliest_finish[n], total_project_duration[1])
         /\ latest_finish[n] = total_project_duration[1]

\* the increment epsilon of the slack property, 2^-30 (about 1e-9)
Eps == <<0, 2^25>>

\* C4: for a non-critical activity X with slack s, the schedule recomputed
\* with X lasting s longer has the same total duration, and recomputed with
\* X lasting s + epsilon longer has a strictly larger one
C4_SlackAbsorbsDelay ==
    total_project_duration # <<>> =>
        \A x \in G_nodes \ critical_path[1] :
            LET s  == FSub(latest_finish[x], earliest_finish[x])
                d1 == FAdd(duration[x], s)
            IN  /\ TotalOf([duration EXCEPT ![x] = d1]) = total_project_duration[1]
                /\ FLt(total_project_duration[1],
                       TotalOf([duration EXCEPT ![x] = FAdd(d1, Eps)]))

\* C5: the critical nodes contain a path along the edges of the graph from
\* a node without predecessors to a node without successors
C5_CriticalPathExists ==
    critical_path # <<>> =>
        \E src \in critical_path[1] :
            /\ G_pred[src] = {}
            /\ \E snk \in ReachWithin({src}, critical_path[1]) : Successors(snk) = {}

\* C6: a predecessor name that is no row makes the graph build fail with a
\* ReferenceError: no node for the name, no timing value computed or reported
C6_UnknownPredRejected ==
    NamesUnknown(activities) =>
        /\ Unknown \notin G_nodes
        /\ earliest_start = <<>> /\ earliest_finish = <<>>
        /\ latest_start = <<>> /\ latest_finish = <<>>
        /\ total_project_duration = <<>>
        /\ pc \notin {"te", "build"} => (pc = "halt" /\ error = "ReferenceError")

\* what the script reports of the schedule
TimingReports == {"cpm_table", "critical_path", "total_duration"}

\* the names that lie on a cycle of predecessor names
OnCycle(acts) == {n \in DOMAIN acts : n \in Ancestors(acts[n].predecessors, acts)}

\* C7: a cycle among the predecessor names ends the run in the cycle error of
\* the topological sort: no node of a cycle ever gets a timing value, the
\* backward pass, the critical set and the total duration never exist and
\* nothing of the schedule is reported
C7_CycleError ==
    HasCycle(activities) =>
        /\ pc \in {"te", "build", "forward", "halt"}
        /\ OnCycle(activities) \cap DOMAIN earliest_start = {}
        /\ pc = "halt" => error = "NetworkXUnfeasible"
        /\ latest_start = <<>> /\ latest_finish = <<>>
        /\ critical_path = <<>> /\ total_project_duration = <<>>
        /\ \A i \in DOMAIN printed : printed[i] \notin TimingReports

C7_Witness ==
    /\ HasCycle(activities)
    /\ pc = "halt"
    /\ error = "NetworkXUnfeasible"
    /\ earliest_start # <<>>

\* C8: the PERT section completes without an error on every acyclic sheet:
\* total_standard_deviation is defined before its first use and the table
\* is produced
C8_PertCompletes ==
    /\ error # "NameError"
    /\ (\E i \in DOMAIN printed : printed[i] = "pert_header") =>
           (pc # "halt" /\ \E i \in DOMAIN printed : printed[i] = "pert_table")

\* the entries of the list that name a row of the store
PresentEntries == {i \in DOMAIN specific_activities :
                      specific_activities[i] \in DOMAIN activities}

\* C9: the subset statistics skip names that are no row without an error,
\* and with fewer than two names present give variance 0 and std_dev 0
C9_SubsetStats ==
    pc # "subset" =>
        /\ error = ""
        /\ Len(specific_durations) = Cardinality(PresentEntries)
        /\ \A i \in DOMAIN specific_durations :
               \E j \in PresentEntries : specific_durations[i] = TE[specific_activities[j]]
        /\ Cardinality(PresentEntries) < 2 =>
               /\ specific_variance = Rat(0, 1)
               /\ specific_std_dev = Rat(0, 1)

C9_Witness ==
    /\ pc = "end"
    /\ Len(specific_activities) = 3
    /\ Cardinality(PresentEntries) = 1
    /\ Len(specific_durations) = 1
    /\ specific_variance = Rat(0, 1)

\* C10: whichever topological orders the two passes follow, every node ends
\* with the ES, EF, LS and LF that the graph and the durations determine,
\* the critical set and the total duration likewise, and the backward pass
\* handles a node only after all its successors have their latest start
C10_OrderIndependent ==
    /\ (pc = "backward" /\ bidx < Len(order)) =>
           Successors(BackwardNode(order, bidx + 1)) \subseteq DOMAIN latest_start
    /\ \A n \in DOMAIN earliest_start :
           /\ earliest_start[n] = ESof(duration, n)
           /\ earliest_finish[n] = EFof(duration, n)
    /\ Scheduled =>
           \A n \in G_nodes : /\ latest_start[n] = LSof(duration, n)
                              /\ latest_finish[n] = LFof(duration, n)
    /\ total_project_duration # <<>> =>
           /\ total_project_duration[1] = TotalOf(duration)
           /\ critical_path[1] = {n \in G_nodes : ESof(duration, n) = LSof(duration, n)}

C10_Witness ==
    /\ total_project_duration # <<>>
    /\ Cardinality(TopoOrders(G_nodes, G_pred)) > 1
    /\ order[1] = "C"
    /\ G_pred["B"] = {"A"}

====
